---- MODULE Spec2Model ----
(***************************************************************************)
(* Background-job orchestration of backend/lightweight_server.py:          *)
(* the in-memory job registry (LightweightServer.running_jobs), the        *)
(* run / status / cancel handlers of the three job types, the child        *)
(* processes they supervise and the parent-heartbeat monitor.              *)
(*                                                                         *)
(* Abstractions.  Wall-clock values (started_at, last_checked,             *)
(* cancelled_at) are kept only as the presence of the key.  A child        *)
(* process is a Popen object plus the OS process behind it; Popen follows  *)
(* CPython >= 3.9 (send_signal polls first and sends nothing to a process  *)
(* that is known to have exited).  A job id is a small natural number.     *)
(* The operations a handler performs on a process (poll, terminate, kill,  *)
(* close of the log handle, communicate) are listed, in order, in the ops  *)
(* field of the response it produces.  The sidecar file and the log file   *)
(* are written by the children at their own pace: what a poll finds in     *)
(* them is an input of the poll.                                           *)
(***************************************************************************)
EXTENDS Integers, Sequences, FiniteSets, TLC

\* ---------------------------------------------------------------- bounds
NumJobIds == 1
MaxProcs == 2
MaxTime == 2
MaxTail == 2

JobIds == 1..NumJobIds
JobTypes == {"inference", "training", "extraction"}
None == "None"

\* exit codes a child can end with on its own, and the codes of a death by
\* SIGTERM / SIGKILL as subprocess reports them
ExitCodes == {0, 1}
SIGTERM_code == 0 - 15
SIGKILL_code == 0 - 9

TerminalStatuses == {"cancelled", "completed", "failed"}

VARIABLES
    running_jobs,   \* LightweightServer.running_jobs: job_id -> job_info dict
    procs,          \* every child spawned so far: Popen object + OS process
    response,       \* the response of the handler that ran last
    hist,           \* per registry record: what its clients were told so far
    parent_alive,   \* the monitored ancestor process is running
    probe_denied,   \* the platform refuses the liveness probe of the ancestor
    monitor_pc,     \* where the monitor_parent_process task stands
    check_count,    \* monitor_parent_process: check_count
    shutdown_event, \* run_server: shutdown_event is set
    runner,         \* the aiohttp runner: serving, cleaning, cleaned, failed
    cancel_sent,    \* run_server called monitor_task.cancel()
    main_pc,        \* where the run_server coroutine stands
    callback_calls, \* how often graceful_shutdown was invoked
    late_checks,    \* liveness checks made after graceful_shutdown was invoked
    loop_time,      \* asyncio.get_event_loop().time() in whole milliseconds
    env_files,      \* the environments and the archive on the file system
    pipe,           \* what the stdout/stderr pipe of a child holds unread
    child_output,   \* what a child has yet to write before it exits
    task_manager,   \* tabs/task_manager.py: the global TaskManager instance
    execution,      \* where the execute_task coroutine chain stands
    uuids           \* how many task ids uuid.uuid4() has handed out

jobVars == <<running_jobs, procs, response, hist>>
serverVars == <<parent_alive, probe_denied, monitor_pc, check_count,
                shutdown_event, runner, cancel_sent, main_pc,
                callback_calls, late_checks>>
osVars == <<pipe, child_output>>
guiVars == <<task_manager, execution, uuids>>
hostVars == <<loop_time, env_files, osVars, guiVars>>
vars == <<running_jobs, procs, response, hist, parent_alive, probe_denied,
          monitor_pc, check_count, shutdown_event, runner, cancel_sent,
          main_pc, callback_calls, late_checks, loop_time, env_files,
          pipe, child_output, task_manager, execution, uuids>>

\* ------------------------------------------------------------- helpers

\* dict.update(): the keys of b override those of a
DictUpdate(a, b) == b @@ a

\* Python's `x or y` for a string-or-None x
PyOr(x, y) == IF x = None \/ x = "" THEN y ELSE x

TypeName(T) ==
    CASE T = "inference" -> "Inference"
      [] T = "training" -> "Training"
      [] T = "extraction" -> "Extraction"

\* the name the status handler of type T uses in its memoized messages
MemoName(T) ==
    CASE T = "inference" -> "Inference"
      [] T = "training" -> "Training"
      [] T = "extraction" -> "Annotation"

\* --------------------------------------------------- the sidecar file
\* what a poll may find at {job_folder}/.status
SidecarDocs == {"doc_stage", "doc_msg"}
SidecarStates == {"absent", "unreadable", "malformed"} \cup SidecarDocs

SidecarDoc(d) ==
    CASE d = "doc_stage" -> [stage |-> "loading_model", progress |-> 10]
      [] d = "doc_msg" -> [message |-> "Processing files", progress |-> 50,
                           metadata |-> "meta"]

SidecarKeys == {"stage", "progress", "message", "metadata"}

\* ------------------------------------------------------------- Popen
\* Popen.poll(): reaps an exited child and caches its return code
PopenPoll(p) ==
    IF p.alive THEN p ELSE [p EXCEPT !.returncode_set = TRUE]

PollIsNone(p) == p.alive

\* Popen.send_signal(): polls, then signals only a child not known dead
SendSignal(p) == PopenPoll(p)
SignalOps(p, sig) == IF p.alive THEN <<sig>> ELSE <<>>

\* process._log_file.close() under hasattr(process, "_log_file")
CloseLog(p) ==
    IF p.log_file = "absent" THEN p ELSE [p EXCEPT !.log_file = "closed"]
CloseOps(p) ==
    CASE p.log_file = "absent" -> <<>>
      [] p.log_file = "open" -> <<"close">>
      [] p.log_file = "closed" -> <<"close again">>

\* Popen.communicate() after exit: drains the pipes, waits
Communicate(p) == [p EXCEPT !.returncode_set = TRUE, !.drained = TRUE]

\* stdout=PIPE only when no log file was opened
Pipes(p) == p.log_file = "absent"
Stdout(p) == IF Pipes(p) THEN "captured stdout" ELSE None
Stderr(p) == IF Pipes(p) THEN "captured stderr" ELSE None

\* -------------------------------------------- get_last_error_from_log
max_lines == 10
MaxErrorLen == 150
KeptLen == 147
TrivialLen == 10

error_keywords ==
    <<"ERROR", "Error", "error", "FAILED", "Failed", "failed", "Exception",
      "Traceback", "RuntimeError", "ValueError", "ImportError">>

\* Python's `keyword in line`
Contains(line, keyword) ==
    \E i \in 1..(Len(line) - Len(keyword) + 1) :
        SubSeq(line, i, i + Len(keyword) - 1) = keyword

\* str.strip()
Whitespace == {" ", "\n", "\t", "\r"}
RECURSIVE LStrip(_)
LStrip(line) ==
    IF Len(line) > 0 /\ SubSeq(line, 1, 1) \in Whitespace
    THEN LStrip(SubSeq(line, 2, Len(line))) ELSE line
RECURSIVE RStrip(_)
RStrip(line) ==
    IF Len(line) > 0 /\ SubSeq(line, Len(line), Len(line)) \in Whitespace
    THEN RStrip(SubSeq(line, 1, Len(line) - 1)) ELSE line
Strip(line) == RStrip(LStrip(line))

\* lines[-max_lines:]
LastLines(lines) ==
    IF Len(lines) > max_lines
    THEN SubSeq(lines, Len(lines) - max_lines + 1, Len(lines)) ELSE lines

Truncate(line) ==
    IF Len(line) > MaxErrorLen THEN SubSeq(line, 1, KeptLen) \o "..." ELSE line

\* any(keyword in line for keyword in error_keywords)
HasKeyword(line) ==
    \E k \in DOMAIN error_keywords : Contains(line, error_keywords[k])

\* line and len(line) > 10
NonTrivial(line) == Len(line) > TrivialLen

\* error_lines[-1]: the last of lines[1..i] with a keyword, None if there
\* is none
RECURSIVE LastErrorLine(_, _)
LastErrorLine(lines, i) ==
    IF i = 0 THEN None
    ELSE IF HasKeyword(Strip(lines[i])) THEN Strip(lines[i])
    ELSE LastErrorLine(lines, i - 1)

\* the first non-trivial line of reversed(lines[1..i]), None if there is none
RECURSIVE LastNonTrivial(_, _)
LastNonTrivial(lines, i) ==
    IF i = 0 THEN None
    ELSE IF NonTrivial(Strip(lines[i])) THEN Strip(lines[i])
    ELSE LastNonTrivial(lines, i - 1)

\* get_last_error_from_log(log_file_path) for a log file that holds
\* log.lines (log.readable is false when the path does not exist or the
\* read raises)
get_last_error_from_log(log) ==
    IF ~log.readable THEN None
    ELSE IF Len(log.lines) = 0 THEN None
    ELSE LET last_lines == LastLines(log.lines)
             last_error == LastErrorLine(last_lines, Len(last_lines))
             last_line == LastNonTrivial(last_lines, Len(last_lines))
         IN  IF last_error /= None THEN Truncate(last_error)
             ELSE IF last_line /= None THEN Truncate(last_line)
             ELSE None

\* ------------------------------------------------- check_*_status
RunningMessage(T) ==
    IF T = "inference" THEN "Inference process is initializing"
    ELSE TypeName(T) \o " process is still running"

\* a merge that takes the stage and the progress only
MergeSidecar_stageProgress(resp, doc) ==
    DictUpdate(resp, [k \in DOMAIN doc \cap {"stage", "progress"} |-> doc[k]])

\* the merge of the sidecar keys into the running response
MergeSidecar(resp, doc) ==
    DictUpdate(resp, [k \in DOMAIN doc \cap SidecarKeys |-> doc[k]])

\* os.path.join(job_info["job_folder"], ".status") raises TypeError when the
\* stored job_folder is None: run_* always stores the key
JobFolderJoinRaises(job_info) ==
    "job_folder" \in DOMAIN job_info /\ job_info.job_folder = None

ErrorResult == [status |-> "error", error |-> "exception text"]

\* the branch for return_code is None
CheckRunning(T, job_info, sc) ==
    LET base == [status |-> "running", message |-> RunningMessage(T)] IN
    IF "job_folder" \in DOMAIN job_info
    THEN IF JobFolderJoinRaises(job_info) THEN ErrorResult
         ELSE IF sc \in SidecarDocs THEN MergeSidecar(base, SidecarDoc(sc))
         ELSE base
    ELSE base

CancelledResult(T, code) ==
    [status |-> "cancelled",
     message |-> TypeName(T) \o " was cancelled by user",
     exit_code |-> code]

CompletedResult(T, p) ==
    LET r == [status |-> "completed",
              message |-> TypeName(T) \o " completed successfully",
              output |-> PyOr(Stdout(p), "Output redirected to log file"),
              stdout |-> PyOr(Stdout(p), "Output redirected to log file"),
              stderr |-> PyOr(Stderr(p), ""),
              exit_code |-> p.code] IN
    IF T = "extraction" THEN DictUpdate(r, [extraction_files |-> "[]"]) ELSE r

FailedResult(T, job_info, p, last_error) ==
    LET log_file_path == IF "log_file_path" \in DOMAIN job_info
                         THEN job_info.log_file_path ELSE None
        error_message ==
            IF log_file_path /= None /\ last_error /= None
            THEN last_error \o " (see log file for full error message)"
            ELSE TypeName(T) \o " failed with exit code"
    IN  [status |-> "failed",
         error |-> error_message,
         exit_code |-> p.code,
         stdout |-> PyOr(Stdout(p), "Output redirected to log file"),
         stderr |-> PyOr(Stderr(p), "Error output redirected to log file")]

\* an exit that is reported completed whatever the exit code
ExitedResult_alwaysCompleted(T, job_info, p, last_error) ==
    IF job_info.status = "cancelled" THEN CancelledResult(T, p.code)
    ELSE CompletedResult(T, p)

\* the branch for an exited process: which result dict is returned
ExitedResult(T, job_info, p, last_error) ==
    IF job_info.status = "cancelled" THEN CancelledResult(T, p.code)
    ELSE IF p.code = 0 THEN CompletedResult(T, p)
    ELSE FailedResult(T, job_info, p, last_error)

\* check_inference_status / check_training_status / check_extraction_status
\* result dict
CheckStatusResult(T, job_info, p, sc, last_error) ==
    IF PollIsNone(p) THEN CheckRunning(T, job_info, sc)
    ELSE ExitedResult(T, job_info, p, last_error)

\* ... and what the call does to the process object
CheckStatusProc(p) ==
    IF PollIsNone(p) THEN p
    ELSE Communicate(CloseLog(PopenPoll(p)))
CheckStatusOps(p) ==
    IF PollIsNone(p) THEN <<"poll">>
    ELSE <<"poll">> \o CloseOps(p) \o <<"communicate">>

\* ------------------------------------------------ get_*_status handler
MemoResult(T, job_info) ==
    CASE job_info.status = "cancelled" ->
            [status |-> "cancelled", message |-> "Job was cancelled by user"]
      [] job_info.status = "completed" ->
            IF T = "extraction"
            THEN [status |-> "completed",
                  message |-> "Annotation completed successfully",
                  extraction_files |->
                      IF "extraction_files" \in DOMAIN job_info
                      THEN job_info.extraction_files ELSE "[]"]
            ELSE [status |-> "completed",
                  message |-> MemoName(T) \o " completed successfully"]
      [] job_info.status = "failed" ->
            [status |-> "failed", message |-> MemoName(T) \o " failed"]

\* a handler that takes no stored status for final
IsFinal_never(job_info) == FALSE

IsFinal(job_info) == job_info.status \in TerminalStatuses

\* the status_result of one poll
StatusResult(T, job_info, p, sc, last_error) ==
    IF IsFinal(job_info) THEN MemoResult(T, job_info)
    ELSE CheckStatusResult(T, job_info, p, sc, last_error)

\* the job_info after one poll
StatusJobInfo(T, job_info, res) ==
    LET a == IF IsFinal(job_info) THEN job_info
             ELSE [job_info EXCEPT !.status = res.status]
        b == DictUpdate(a, [last_checked |-> "t"])
    IN  IF res.status \in TerminalStatuses THEN DictUpdate(b, res) ELSE b

StatusBody(T, j, job_info, res) ==
    LET head == [job_id |-> j, system_pid |-> job_info.system_pid,
                 started_at |-> "t", last_checked |-> "t"]
        typed == IF T = "inference" THEN head
                 ELSE DictUpdate(head, [job_type |-> T])
    IN  DictUpdate(typed, res)

\* an unknown id answered as a success
NotFound_ok(h, T, j) ==
    [handler |-> h, job_id |-> j, http |-> 200,
     body |-> [status |-> "cancelled", job_id |-> j], ops |-> <<>>]

NotFound(h, T, j) ==
    [handler |-> h, job_id |-> j, http |-> 404,
     body |-> [status |-> "error", error |-> "not found"], ops |-> <<>>]

\* the fields of a status body that a client compares between polls
PayloadKeys == {"status", "message", "exit_code", "output", "stdout",
                "stderr", "error"}
Payload(body) == [k \in DOMAIN body \cap PayloadKeys |-> body[k]]
NoPayload == [status |-> "none"]

\* GET /{T}/status/{j}
get_status(T, j, sc, last_error) ==
       IF j \notin DOMAIN running_jobs
       THEN /\ response' = NotFound("status", T, j)
            /\ UNCHANGED <<running_jobs, procs, hist>>
       ELSE LET job_info == running_jobs[j]
                pid == job_info.process
                p == procs[pid]
                res == StatusResult(T, job_info, p, sc, last_error)
            IN  /\ procs' = IF IsFinal(job_info) THEN procs
                            ELSE [procs EXCEPT ![pid] = CheckStatusProc(p)]
                /\ running_jobs' =
                      [running_jobs EXCEPT ![j] = StatusJobInfo(T, job_info, res)]
                /\ response' = [handler |-> "status", job_id |-> j,
                                http |-> 200,
                                body |-> StatusBody(T, j, job_info, res),
                                ops |-> IF IsFinal(job_info) THEN <<>>
                                        ELSE CheckStatusOps(p)]
                /\ hist' = [hist EXCEPT ![j].first_terminal =
                              IF @ = NoPayload /\ res.status \in TerminalStatuses
                              THEN Payload(res) ELSE @]

\* ---------------------------------------------------- cancel_* handler
\* a cancel that records its time but not the status
MarkCancelled_keepsStatus(job_info) ==
    DictUpdate(job_info, [cancelled_at |-> "t"])

\* the two assignments that mark the record cancelled
MarkCancelled(job_info) ==
    DictUpdate([job_info EXCEPT !.status = "cancelled"], [cancelled_at |-> "t"])

\* the child during the 0.5 s grace sleep: it may end by the signal, end on
\* its own with code 0, or keep running (None)
GraceOutcomes == {None, "killed", "exit0"}
Grace(p, grace_exit) ==
    IF p.alive /\ grace_exit /= None
    THEN [p EXCEPT !.alive = FALSE,
                   !.code = IF grace_exit = "killed" THEN SIGTERM_code ELSE 0]
    ELSE p

\* process.kill(): SIGKILL ends the child; nothing polls it afterwards
Kill(p) ==
    IF p.alive THEN [p EXCEPT !.alive = FALSE, !.code = SIGKILL_code]
    ELSE PopenPoll(p)

\* terminate(), sleep, poll(), kill() if still running, close of the log
CancelProc(p, grace_exit) ==
    LET p2 == Grace(SendSignal(p), grace_exit)
        p3 == IF PollIsNone(p2) THEN Kill(p2) ELSE PopenPoll(p2)
    IN  CloseLog(p3)
CancelOps_killFirst(p, grace_exit) ==
    LET p2 == Grace(SendSignal(p), grace_exit) IN
    SignalOps(p, "SIGKILL") \o SignalOps(p, "SIGTERM") \o <<"poll">>
        \o CloseOps(p2)

CancelOps(p, grace_exit) ==
    LET p2 == Grace(SendSignal(p), grace_exit) IN
    SignalOps(p, "SIGTERM") \o <<"poll">>
        \o (IF PollIsNone(p2) THEN SignalOps(p2, "SIGKILL") ELSE <<>>)
        \o CloseOps(p2)

\* POST /{T}/cancel/{j}
cancel_job(T, j, grace_exit) ==
       IF j \notin DOMAIN running_jobs
       THEN /\ response' = NotFound("cancel", T, j)
            /\ UNCHANGED <<running_jobs, procs, hist>>
       ELSE LET job_info == running_jobs[j]
                pid == job_info.process
                p == procs[pid]
            IN  /\ procs' = [procs EXCEPT ![pid] = CancelProc(p, grace_exit)]
                /\ running_jobs' =
                      [running_jobs EXCEPT ![j] = MarkCancelled(job_info)]
                /\ response' = [handler |-> "cancel", job_id |-> j,
                                http |-> 200,
                                body |-> [status |-> "cancelled", job_id |-> j],
                                ops |-> CancelOps(p, grace_exit)]
                /\ hist' = IF job_info.status = "running"
                           THEN [hist EXCEPT ![j].cancel_accepted = TRUE,
                                             ![j].exited_before_cancel = ~p.alive]
                           ELSE hist

\* ------------------------------------------------------- run_* handler
\* what config_data.get("log_file_path") / .get("job_folder") can give; an
\* unreadable config gives None for both
Configs == [log_file_path : {None, "log.txt"}, job_folder : {None, "folder"}]

RunOutcomes == {"no_config_path", "env_error", "python_missing",
                "config_missing", "spawn_raises", "started"}

\* what a run request meets: a body with a config_path, an environment that
\* setup_environment finds ready, the interpreter and the config file on
\* disk, a Popen (or the open of the log file) that raises
LaunchFacts == [config_path : BOOLEAN, env_ready : BOOLEAN,
                python_exists : BOOLEAN, config_exists : BOOLEAN,
                popen_raises : BOOLEAN]

\* a launcher that does not look for the config file
LaunchOutcome_noConfigCheck(f) ==
    IF ~f.config_path THEN "no_config_path"
    ELSE IF ~f.env_ready THEN "env_error"
    ELSE IF ~f.python_exists THEN "python_missing"
    ELSE IF f.popen_raises THEN "spawn_raises"
    ELSE "started"

\* where run_* and start_*_process return, in the order of their tests
LaunchOutcome(f) ==
    IF ~f.config_path THEN "no_config_path"
    ELSE IF ~f.env_ready THEN "env_error"
    ELSE IF ~f.python_exists THEN "python_missing"
    ELSE IF ~f.config_exists THEN "config_missing"
    ELSE IF f.popen_raises THEN "spawn_raises"
    ELSE "started"

\* subprocess.Popen(...) of start_*_process, with process._log_file
NewProcess(T, j, cfg) ==
    [job_id |-> j, alive |-> TRUE, code |-> 0, returncode_set |-> FALSE,
     drained |-> FALSE,
     log_file |-> IF cfg.log_file_path /= None THEN "open" ELSE "absent"]

\* the dict stored in self.running_jobs[job_id]
NewJobInfo(T, j, pid, cfg) ==
    LET base == [process |-> pid, status |-> "running", job_id |-> j,
                 system_pid |-> pid, command |-> T, started_at |-> "t",
                 log_file_path |-> cfg.log_file_path,
                 job_folder |-> cfg.job_folder]
    IN  IF T = "inference" THEN base ELSE DictUpdate(base, [job_type |-> T])

\* self.running_jobs[job_id] = {...}
Register(jobs, j, job_info) ==
    [k \in DOMAIN jobs \cup {j} |-> IF k = j THEN job_info ELSE jobs[k]]

InitHist == [cancel_accepted |-> FALSE, exited_before_cancel |-> FALSE,
             first_terminal |-> NoPayload]

\* the log file object after a launcher returned an error: no path from
\* open() to the return calls close(), so a handle the launcher had opened
\* stays open until the interpreter finalizes the unreferenced file
\* object, which the language leaves to the implementation
HandleStates(opened_log) ==
    IF opened_log THEN {"open", "finalized"} ELSE {"none"}

\* an error response of run_* (it does not name the job id); opened_log: the
\* launcher had opened the log file before it failed; log_handle: what has
\* become of that handle when the response is sent
RunError(T, j, code, why, opened_log, log_handle) ==
    [handler |-> "run", job_id |-> 0, http |-> code,
     body |-> [status |-> "error", error |-> why], ops |-> <<>>,
     opened_log |-> opened_log, log_handle |-> log_handle]

\* POST /{T}/run with body {config_path, env_path?, job_id: j}
run_job(T, j, cfg, outcome) ==
    CASE outcome = "no_config_path" ->
            /\ response' = RunError(T, j, 400, "config_path required", FALSE,
                                    "none")
            /\ UNCHANGED <<running_jobs, procs, hist>>
      [] outcome \in {"env_error", "python_missing", "config_missing"} ->
            /\ response' = RunError(T, j, 500, outcome, FALSE, "none")
            /\ UNCHANGED <<running_jobs, procs, hist>>
      [] outcome = "spawn_raises" ->
            /\ \E h \in HandleStates(cfg.log_file_path /= None) :
                  response' = RunError(T, j, 500, outcome,
                                       cfg.log_file_path /= None, h)
            /\ UNCHANGED <<running_jobs, procs, hist>>
      [] outcome = "started" ->
            /\ Len(procs) < MaxProcs
            /\ LET pid == Len(procs) + 1 IN
               /\ procs' = Append(procs, NewProcess(T, j, cfg))
               /\ running_jobs' =
                      Register(running_jobs, j, NewJobInfo(T, j, pid, cfg))
            /\ hist' = [hist EXCEPT ![j] = InitHist]
            /\ response' = [handler |-> "run", job_id |-> j, http |-> 200,
                            body |-> [status |-> "started", job_id |-> j],
                            ops |-> <<"spawn">>]

\* the ids run_* makes up for a request without job_id: "job_<ms>",
\* "training_job_<ms>", "extraction_job_<ms>", numbered so that two of them
\* are equal exactly when the strings are
TypeIndex(T) ==
    CASE T = "inference" -> 0
      [] T = "training" -> 1
      [] T = "extraction" -> 2
GeneratedId(T, ms) == TypeIndex(T) * (MaxTime + 1) + ms
GeneratedIds == {GeneratedId(T, ms) : T \in JobTypes, ms \in 1..MaxTime}

\* POST /{T}/run with body {config_path, env_path?}: data.get("job_id",
\* default) takes the default
run_generated(T, cfg, outcome) ==
    /\ run_job(T, GeneratedId(T, loop_time), cfg, outcome)
    /\ UNCHANGED <<loop_time, osVars, guiVars>>

\* the clock of the event loop passes a millisecond
tick ==
    /\ loop_time < MaxTime
    /\ loop_time' = loop_time + 1
    /\ UNCHANGED <<running_jobs, procs, response, hist>>
    /\ UNCHANGED <<osVars, guiVars>>

\* ------------------------------------------------------ the children
\* a child ends on its own
child_exit(pid, code) ==
    /\ pid \in DOMAIN procs
    /\ procs[pid].alive
    /\ procs' = [procs EXCEPT ![pid].alive = FALSE, ![pid].code = code]
    /\ UNCHANGED <<running_jobs, response, hist>>

\* what get_last_error_from_log can return for the log of a failed job
LastErrors == {None, "RuntimeError: CUDA out of memory"}

NoResponse == [handler |-> "none", job_id |-> 0,
               http |-> 0, body |-> [status |-> "none"], ops |-> <<>>]

\* ------------------------------------------------ the environment
\* what check_environment can find at an environment path: no interpreter,
\* an interpreter whose version probe exits non-zero, one whose probe cannot
\* be run at all (subprocess.run raises), a working one
EnvStates == {"missing", "broken", "raises", "ready"}
\* what an archive unpacks to, when it can be opened
ArchiveContents == {"good", "nopython", "badpython"}
\* the archive in the cache directory
ArchiveStates == {"absent", "corrupt"} \cup ArchiveContents

\* the managed environment, the archive and a custom environment
InstalledFiles == [managed |-> "ready", archive |-> "good", custom |-> "ready"]
EnvFiles == [managed : EnvStates, archive : ArchiveStates, custom : EnvStates]

EnvModes == {"managed", "custom"}
\* get_default_env_path() / resolve_path(env_dir)
EnvDir(mode) ==
    IF mode = "managed" THEN "cache/envs/dipper_pytorch_env" ELSE "custom_env"
PythonPath(env_dir) == env_dir \o "/bin/python"
ArchivePath == "cache/archives/dipper_pytorch_env.tar.gz"

\* check_environment(env_path) for an environment in state st
check_environment(st, env_dir) ==
    CASE st = "missing" ->
            [status |-> "missing", python_path |-> PythonPath(env_dir)]
      [] st = "ready" ->
            [status |-> "ready", python_path |-> PythonPath(env_dir),
             version |-> "Python 3.11"]
      [] st = "broken" ->
            [status |-> "broken", error |-> "Python check failed: stderr"]
      [] st = "raises" ->
            [status |-> "error", error |-> "Permission denied"]

\* d.get("error", "Unknown error")
GetError(d) == IF "error" \in DOMAIN d THEN d.error ELSE "Unknown error"

\* download_environment_from_gdrive(): gdown raises, gdown gives up without
\* an exception and without a file, or the archive is written
DownloadOutcomes == {"raises", "silent"} \cup {"corrupt"} \cup ArchiveContents
download_environment_from_gdrive(dl) ==
    IF dl = "raises"
    THEN [status |-> "error", error |-> "Connection refused"]
    ELSE [status |-> "success", archive_path |-> ArchivePath]
Downloaded(archive, dl) ==
    IF dl \in {"raises", "silent"} THEN archive ELSE dl

\* tar.extractall over the environment directory
ExtractOutcomes == {"ok", "raises"}
ExtractRaises(archive, ex) == archive = "corrupt" \/ ex = "raises"
Unpacked(st, archive) ==
    CASE archive = "good" -> "ready"
      [] archive = "badpython" -> "broken"
      [] archive = "nopython" -> st

\* extract_environment(archive_path, extract_dir): its result
extract_environment(st, archive, ex) ==
    IF ExtractRaises(archive, ex)
    THEN [status |-> "error", error |-> "not a gzip file"]
    ELSE LET env_check ==
                 check_environment(Unpacked(st, archive), EnvDir("managed"))
         IN  IF env_check.status \in {"ready", "missing"}
             THEN [status |-> "success", env_path |-> EnvDir("managed")]
             ELSE [status |-> "error",
                   error |-> "Environment extraction failed: "
                                 \o GetError(env_check)]
\* ... and the environment it leaves
Extracted(st, archive, ex) ==
    IF ExtractRaises(archive, ex) THEN st ELSE Unpacked(st, archive)
ExtractOps(archive, ex) ==
    IF ExtractRaises(archive, ex) THEN <<"extract">>
    ELSE <<"extract", "check">>

ReadyResult(env_check, msg) ==
    [status |-> "ready", python_path |-> env_check.python_path,
     message |-> msg]
ErrorText(err) == [status |-> "error", error |-> err]

\* an environment that is provisioned although its check says ready
NeedsProvisioning_always(env_check) == TRUE

\* the managed branch goes on to the archive unless the check says ready
NeedsProvisioning(env_check) == env_check.status /= "ready"

\* the extraction step of setup_environment and what follows it
SetupExtract(files, ex, ops) ==
    IF files.archive = "absent"
    THEN [result |-> ErrorText("Archive not found at " \o ArchivePath),
          files |-> files, ops |-> ops, failed_step |-> "download"]
    ELSE LET extract_result ==
                 extract_environment(files.managed, files.archive, ex)
             after == [files EXCEPT
                          !.managed = Extracted(@, files.archive, ex)]
             ops2 == ops \o ExtractOps(files.archive, ex)
         IN  IF extract_result.status = "success"
             THEN LET final_check ==
                          check_environment(after.managed, EnvDir("managed"))
                  IN  IF final_check.status = "ready"
                      THEN [result |-> ReadyResult(final_check,
                                          "Environment extracted and ready"),
                            files |-> after, ops |-> ops2 \o <<"check">>,
                            failed_step |-> None]
                      ELSE [result |-> ErrorText("Environment setup failed: "
                                                 \o GetError(final_check)),
                            files |-> after, ops |-> ops2 \o <<"check">>,
                            failed_step |-> "validation"]
             ELSE [result |-> extract_result, files |-> after, ops |-> ops2,
                   failed_step |-> IF ExtractRaises(files.archive, ex)
                                   THEN "extraction" ELSE "validation"]

\* the download step of setup_environment and what follows it
SetupProvision(files, dl, ex, ops) ==
    IF files.archive /= "absent"
    THEN SetupExtract(files, ex, ops)
    ELSE LET download_result == download_environment_from_gdrive(dl) IN
         IF download_result.status = "success"
         THEN SetupExtract([files EXCEPT !.archive = Downloaded(@, dl)],
                           ex, ops \o <<"download">>)
         ELSE [result |-> ErrorText("Failed to download environment: "
                                    \o GetError(download_result)),
               files |-> files, ops |-> ops \o <<"download">>,
               failed_step |-> "download"]

\* a custom environment that is replaced by the managed one when it fails
CustomFailed_fallsBack(files, dl, ex, env_check) ==
    SetupProvision(files, dl, ex, <<"check">>)

\* the custom branch for a check that is not ready
CustomFailed(files, dl, ex, env_check) ==
    [result |-> ErrorText("User-specified custom environment "
                          \o EnvDir("custom") \o " could not be used: "
                          \o GetError(env_check)),
     files |-> files, ops |-> <<"check">>, failed_step |-> None]

\* setup_environment(env_dir): the dict it returns, the files it leaves, the
\* steps it performs (check, download, extract) and, for an error of the
\* managed mode, the step that failed
setup_environment(files, mode, dl, ex) ==
    IF mode = "custom"
    THEN LET env_check == check_environment(files.custom, EnvDir("custom")) IN
         IF env_check.status = "ready"
         THEN [result |-> ReadyResult(env_check, "Environment already ready"),
               files |-> files, ops |-> <<"check">>, failed_step |-> None]
         ELSE CustomFailed(files, dl, ex, env_check)
    ELSE LET env_check ==
                 check_environment(files.managed, EnvDir("managed")) IN
         IF NeedsProvisioning(env_check)
         THEN SetupProvision(files, dl, ex, <<"check">>)
         ELSE [result |-> ReadyResult(env_check, "Environment already ready"),
               files |-> files, ops |-> <<"check">>, failed_step |-> None]

\* POST /env/setup with body {env_path?}
setup_env(mode, dl, ex) ==
    LET r == setup_environment(env_files, mode, dl, ex) IN
    /\ env_files' = r.files
    /\ response' = [handler |-> "setup_env", job_id |-> 0, http |-> 200,
                    body |-> r.result, ops |-> r.ops, mode |-> mode,
                    failed_step |-> r.failed_step]
    /\ UNCHANGED <<running_jobs, procs, hist, loop_time, osVars, guiVars>>

\* the user or the system changes the files behind the server's back
files_change(files) ==
    /\ files /= env_files
    /\ env_files' = files
    /\ UNCHANGED <<running_jobs, procs, response, hist, loop_time>>
    /\ UNCHANGED <<osVars, guiVars>>

\* ------------------------------------------- parent-heartbeat monitor
\* the first checks are logged
LogChecks == 3
\* check_count is only compared with LogChecks: LogChecks + 1 stands for
\* every larger value
CountCheck(n) == IF n > LogChecks THEN n ELSE n + 1

\* what the platform probe (os.kill(pid, 0) / OpenProcess) of the ancestor
\* does: succeed, fail because there is no such process, or fail because
\* the server may not signal the process
\* a probe that still finds a process under the pid of the dead ancestor
ProbeOutcome_stale ==
    IF probe_denied THEN "permission error" ELSE "ok"

ProbeOutcome ==
    IF ~parent_alive THEN "no such process"
    ELSE IF probe_denied THEN "permission error" ELSE "ok"

\* a probe whose failure is taken for a live process
is_process_alive_optimistic(probe) == TRUE

\* is_process_alive(pid) for the positive pid run_server passes
is_process_alive(probe) == probe = "ok"

\* a loop without the break after the callback
AfterCheck_noBreak(is_alive) == "sleeping"

\* what the monitor does after a check with result is_alive
AfterCheck(is_alive) == IF is_alive THEN "sleeping" ELSE "in_callback"

\* one iteration of the loop of monitor_parent_process: the sleep is over,
\* check_count += 1, the probe, and on a dead ancestor the call of
\* shutdown_callback up to its first suspension: graceful_shutdown sets the
\* event and awaits runner.cleanup()
monitor_check ==
    /\ monitor_pc = "sleeping"
    /\ ~cancel_sent
    /\ main_pc /= "exited"
    /\ check_count' = CountCheck(check_count)
    /\ late_checks' = IF callback_calls > 0 THEN late_checks + 1 ELSE late_checks
    /\ LET is_alive == is_process_alive(ProbeOutcome) IN
       /\ monitor_pc' = AfterCheck(is_alive)
       /\ IF is_alive
          THEN UNCHANGED <<shutdown_event, runner, callback_calls>>
          ELSE /\ shutdown_event' = TRUE
               /\ runner' = "cleaning"
               /\ callback_calls' = callback_calls + 1
    /\ UNCHANGED <<parent_alive, probe_denied, cancel_sent, main_pc>>
    /\ UNCHANGED jobVars

\* runner.cleanup() returns or raises; graceful_shutdown catches the
\* exception, the monitor logs and leaves its loop
cleanup_ends(raises) ==
    /\ monitor_pc = "in_callback"
    /\ ~cancel_sent
    /\ main_pc /= "exited"
    /\ runner' = IF raises THEN "failed" ELSE "cleaned"
    /\ monitor_pc' = "done"
    /\ UNCHANGED <<parent_alive, probe_denied, check_count, shutdown_event,
                   cancel_sent, main_pc, callback_calls, late_checks>>
    /\ UNCHANGED jobVars

\* the CancelledError of monitor_task.cancel() reaches the monitor at its
\* await (the sleep, or runner.cleanup() inside the callback); neither
\* `except Exception` catches it
monitor_cancelled ==
    /\ cancel_sent
    /\ monitor_pc \in {"sleeping", "in_callback"}
    /\ main_pc /= "exited"
    /\ monitor_pc' = "cancelled"
    /\ UNCHANGED <<parent_alive, probe_denied, check_count, shutdown_event,
                   runner, cancel_sent, main_pc, callback_calls, late_checks>>
    /\ UNCHANGED jobVars

MonitorDone == monitor_pc \in {"done", "cancelled"}

\* the finally clause of run_server: cancel the monitor unless it is done
Finally ==
    IF MonitorDone
    THEN /\ main_pc' = "exited"
         /\ UNCHANGED cancel_sent
    ELSE /\ main_pc' = "awaiting_monitor"
         /\ cancel_sent' = TRUE

\* run_server returns from `await shutdown_event.wait()`
main_wakes ==
    /\ main_pc = "waiting"
    /\ shutdown_event
    /\ Finally
    /\ UNCHANGED <<parent_alive, probe_denied, monitor_pc, check_count,
                   shutdown_event, runner, callback_calls, late_checks>>
    /\ UNCHANGED jobVars

\* the wait of run_server is interrupted (Ctrl-C)
main_interrupted ==
    /\ main_pc = "waiting"
    /\ ~shutdown_event
    /\ Finally
    /\ UNCHANGED <<parent_alive, probe_denied, monitor_pc, check_count,
                   shutdown_event, runner, callback_calls, late_checks>>
    /\ UNCHANGED jobVars

\* `await monitor_task` returns; run_server ends and main() calls sys.exit(0)
main_exits ==
    /\ main_pc = "awaiting_monitor"
    /\ MonitorDone
    /\ main_pc' = "exited"
    /\ UNCHANGED <<parent_alive, probe_denied, monitor_pc, check_count,
                   shutdown_event, runner, cancel_sent, callback_calls,
                   late_checks>>
    /\ UNCHANGED jobVars

\* the ancestor process ends
parent_dies ==
    /\ parent_alive
    /\ parent_alive' = FALSE
    /\ UNCHANGED <<probe_denied, monitor_pc, check_count, shutdown_event,
                   runner, cancel_sent, main_pc, callback_calls, late_checks>>
    /\ UNCHANGED jobVars

\* the server answers requests until its runner is cleaned up or it exits
Serving == runner \in {"serving", "cleaning"} /\ main_pc /= "exited"

InitJobs ==
    /\ running_jobs = <<>>
    /\ procs = <<>>
    /\ response = NoResponse
    /\ hist = [j \in JobIds |-> InitHist]

\* run_server has started the server and created the monitor task
InitServer ==
    /\ parent_alive = TRUE
    /\ probe_denied \in BOOLEAN
    /\ monitor_pc = "sleeping"
    /\ check_count = 0
    /\ shutdown_event = FALSE
    /\ runner = "serving"
    /\ cancel_sent = FALSE
    /\ main_pc = "waiting"
    /\ callback_calls = 0
    /\ late_checks = 0

\* the host as the job handlers find it: the clock at its start, the managed
\* environment installed
\* TaskManager.__init__, and no task started yet
InitGui ==
    /\ task_manager = [tasks |-> <<>>, current_task |-> None, queue |-> <<>>]
    /\ execution = [pc |-> "idle", attempt |-> 0, orphan |-> None]
    /\ uuids = 0

InitHost ==
    /\ loop_time = 1
    /\ env_files = InstalledFiles
    /\ pipe = 0
    /\ child_output = 0
    /\ InitGui

Init == InitJobs /\ InitServer /\ ~probe_denied /\ InitHost

\* the type of the job registered under j: the run_* handler that stored it
JobType(job_info) == job_info.command

\* the endpoints a client addresses for job id j: those of the job's own type
Endpoints(j) ==
    IF j \in DOMAIN running_jobs THEN {JobType(running_jobs[j])} ELSE JobTypes

\* the inputs that can make a difference to a request in the current state
\* the job types of one behaviour: the clients of one server run submit
\* jobs of one type, any of the three
TypesInUse ==
    IF DOMAIN running_jobs = {} THEN JobTypes
    ELSE {JobType(running_jobs[j]) : j \in DOMAIN running_jobs}
RunTypes(o) == IF o = "started" THEN TypesInUse ELSE {"inference"}
RunConfigs(o) ==
    CASE o = "started" -> Configs
      [] o = "spawn_raises" ->
            {cfg \in Configs : cfg.job_folder = None}
      [] OTHER -> {[log_file_path |-> None, job_folder |-> None]}

ReadsSidecar(j) ==
    /\ j \in DOMAIN running_jobs
    /\ ~IsFinal(running_jobs[j])
    /\ procs[running_jobs[j].process].alive
    /\ running_jobs[j].job_folder /= None
SidecarInputs(j) == IF ReadsSidecar(j) THEN SidecarStates ELSE {"absent"}

ReadsLog(j) ==
    /\ j \in DOMAIN running_jobs
    /\ ~IsFinal(running_jobs[j])
    /\ ~procs[running_jobs[j].process].alive
    /\ procs[running_jobs[j].process].code /= 0
    /\ running_jobs[j].log_file_path /= None
LogInputs(j) == IF ReadsLog(j) THEN LastErrors ELSE {None}

GraceInputs(j) ==
    IF j \in DOMAIN running_jobs /\ procs[running_jobs[j].process].alive
    THEN GraceOutcomes ELSE {None}

RunRequest ==
    /\ Serving
    /\ \E j \in JobIds, o \in RunOutcomes :
          \E T \in RunTypes(o), cfg \in RunConfigs(o) : run_job(T, j, cfg, o)
    /\ UNCHANGED serverVars
    /\ UNCHANGED hostVars
StatusRequest ==
    /\ Serving
    /\ \E j \in JobIds :
          \E T \in Endpoints(j), sc \in SidecarInputs(j), e \in LogInputs(j) :
              get_status(T, j, sc, e)
    /\ UNCHANGED serverVars
    /\ UNCHANGED hostVars
CancelRequest ==
    /\ Serving
    /\ \E j \in JobIds :
          \E T \in Endpoints(j), g \in GraceInputs(j) : cancel_job(T, j, g)
    /\ UNCHANGED serverVars
    /\ UNCHANGED hostVars
ChildExit ==
    /\ \E pid \in 1..MaxProcs, c \in ExitCodes : child_exit(pid, c)
    /\ UNCHANGED serverVars
    /\ UNCHANGED hostVars

\* the job lifecycle under a server whose ancestor stays alive
Next ==
    \/ RunRequest
    \/ StatusRequest
    \/ CancelRequest
    \/ ChildExit

Spec == Init /\ [][Next]_vars

\* ------------------------------------------------ the server's shutdown
\* one job, started from a config with a log file and a job folder
ServerRun ==
    /\ Serving
    /\ procs = <<>>
    /\ \E j \in JobIds :
          run_job("inference", j,
                  [log_file_path |-> "log.txt", job_folder |-> "folder"],
                  "started")
    /\ UNCHANGED serverVars
    /\ UNCHANGED hostVars
MonitorCheck == monitor_check /\ UNCHANGED hostVars
CleanupEnds == (\E raises \in BOOLEAN : cleanup_ends(raises)) /\ UNCHANGED hostVars
MonitorCancelled == monitor_cancelled /\ UNCHANGED hostVars
MainWakes == main_wakes /\ UNCHANGED hostVars
MainInterrupted == main_interrupted /\ UNCHANGED hostVars
MainExits == main_exits /\ UNCHANGED hostVars
ParentDies == parent_dies /\ UNCHANGED hostVars

ServerNext ==
    \/ ServerRun
    \/ StatusRequest
    \/ CancelRequest
    \/ ChildExit
    \/ MonitorCheck
    \/ CleanupEnds
    \/ MonitorCancelled
    \/ MainWakes
    \/ MainInterrupted
    \/ MainExits
    \/ ParentDies

\* the event loop runs every task that is ready
ServerFairness ==
    /\ WF_vars(MonitorCheck)
    /\ WF_vars(CleanupEnds)
    /\ WF_vars(MonitorCancelled)
    /\ WF_vars(MainWakes)
    /\ WF_vars(MainExits)

\* the server as run_server starts it, whatever the probe of the parent can do
ServerInit == InitJobs /\ InitServer /\ InitHost

ServerSpec == ServerInit /\ [][ServerNext]_vars /\ ServerFairness

\* ------------------------------------------------ the log of a failed job
RECURSIVE Pad(_)
Pad(n) ==
    IF n = 0 THEN ""
    ELSE IF n % 2 = 0 THEN LET half == Pad(n \div 2) IN half \o half
    ELSE "x" \o Pad(n - 1)

\* lines a child can leave in its log, as readlines() returns them
LogLines ==
    {"RuntimeError: CUDA out of memory\n",
     "During handling of the above exception, another exception occurred:\n",
     "Epoch 3 finished, loss 0.1\n",
     "  File train.py, line 10\n",
     "done\n",
     "\n",
     "ImportError: " \o Pad(MaxErrorLen) \o "\n",
     "loss " \o Pad(MaxErrorLen) \o "\n"}
Filler == "ok\n"

RECURSIVE Fill(_)
Fill(n) == IF n = 0 THEN <<>> ELSE <<Filler>> \o Fill(n - 1)

Tails == UNION {[1..n -> LogLines] : n \in 0..MaxTail}

\* a first line, a run of short lines that can push it out of the last
\* max_lines lines, and the lines at the end
LogFiles ==
    {[readable |-> TRUE, lines |-> <<first>> \o Fill(n) \o tail] :
        first \in LogLines,
        n \in {0, max_lines - MaxTail, max_lines - 1, max_lines},
        tail \in Tails}
    \cup {[readable |-> TRUE, lines |-> <<>>],
          [readable |-> FALSE, lines |-> <<>>]}

\* the job of a failed poll: registered with a log file, exited with code 1
FailedJob(T) ==
    NewJobInfo(T, 1, 1, [log_file_path |-> "log.txt", job_folder |-> "folder"])
FailedProcess(T) ==
    [NewProcess(T, 1, [log_file_path |-> "log.txt", job_folder |-> "folder"])
        EXCEPT !.alive = FALSE, !.code = 1]

\* check_*_status of an exited job with exit code 1 and the log file `log`;
\* the child has exited, so every call for the job finds the same log
failed_status(T, log) ==
    /\ response.handler = "failed_status"
          => (response.log = log /\ response.body.exit_code = 1
                /\ response.type = T)
    /\ response' = [handler |-> "failed_status", job_id |-> 0, http |-> 0,
                    type |-> T,
                    body |-> ExitedResult(T, FailedJob(T), FailedProcess(T),
                                          get_last_error_from_log(log)),
                    ops |-> CheckStatusOps(FailedProcess(T)),
                    log |-> log]
    /\ UNCHANGED <<running_jobs, procs, hist>>

FailedStatus ==
    /\ \E T \in JobTypes, log \in LogFiles : failed_status(T, log)
    /\ UNCHANGED serverVars
    /\ UNCHANGED hostVars

LogNext == FailedStatus

LogSpec == Init /\ [][LogNext]_vars

\* ------------------------------------------------ generated job ids
InitClock ==
    /\ running_jobs = <<>>
    /\ procs = <<>>
    /\ response = NoResponse
    /\ hist = [j \in GeneratedIds |-> InitHist]
    /\ InitServer
    /\ ~probe_denied
    /\ InitHost

\* the jobs of these requests write a log file and a sidecar
ClockConfigs(o) ==
    IF o = "started"
    THEN {[log_file_path |-> "log.txt", job_folder |-> "folder"]}
    ELSE RunConfigs(o)

\* a request without job_id
RunGenerated ==
    /\ \E o \in RunOutcomes :
          \E T \in RunTypes(o), cfg \in ClockConfigs(o) :
              run_generated(T, cfg, o)
    /\ UNCHANGED <<serverVars, env_files>>
\* a request with a job_id of the client's choice that reads like one the
\* server makes up for the type
RunNamed ==
    /\ \E T \in RunTypes("started"), ms \in 1..MaxTime :
          \E cfg \in ClockConfigs("started") :
              run_job(T, GeneratedId(T, ms), cfg, "started")
    /\ UNCHANGED serverVars
    /\ UNCHANGED hostVars
Tick ==
    /\ tick
    /\ UNCHANGED <<serverVars, env_files>>
ClockStatus ==
    /\ \E j \in DOMAIN running_jobs :
          \E T \in Endpoints(j), e \in LogInputs(j) :
              get_status(T, j, "absent", e)
    /\ UNCHANGED serverVars
    /\ UNCHANGED hostVars
ClockCancel ==
    /\ \E j \in DOMAIN running_jobs :
          \E T \in Endpoints(j), g \in GraceInputs(j) : cancel_job(T, j, g)
    /\ UNCHANGED serverVars
    /\ UNCHANGED hostVars

ClockNext ==
    \/ RunGenerated
    \/ RunNamed
    \/ Tick
    \/ ClockStatus
    \/ ClockCancel
    \/ ChildExit

ClockSpec == InitClock /\ [][ClockNext]_vars

\* ------------------------------------------------ the shared registry
\* one id per job type; the clients address every endpoint with every id
RouteIds == {GeneratedId(T, 1) : T \in JobTypes}
RouteConfig == [log_file_path |-> "log.txt", job_folder |-> "folder"]

RouteRun ==
    /\ \E T \in JobTypes : run_job(T, GeneratedId(T, 1), RouteConfig, "started")
    /\ UNCHANGED serverVars
    /\ UNCHANGED hostVars
RouteStatus ==
    /\ \E j \in RouteIds, T \in JobTypes :
          \E e \in LogInputs(j) : get_status(T, j, "absent", e)
    /\ UNCHANGED serverVars
    /\ UNCHANGED hostVars
RouteCancel ==
    /\ \E j \in RouteIds, T \in JobTypes :
          \E g \in GraceInputs(j) : cancel_job(T, j, g)
    /\ UNCHANGED serverVars
    /\ UNCHANGED hostVars

RouteNext ==
    \/ RouteRun
    \/ RouteStatus
    \/ RouteCancel
    \/ ChildExit

RouteSpec == InitClock /\ [][RouteNext]_vars

\* ------------------------------------------- environment resolution
InitEnv ==
    /\ InitJobs
    /\ InitServer
    /\ ~probe_denied
    /\ loop_time = 1
    /\ env_files \in EnvFiles
    /\ pipe = 0
    /\ child_output = 0
    /\ InitGui

\* the inputs that can make a difference to setup_environment
DownloadInputs(mode) ==
    IF mode = "managed" /\ env_files.managed /= "ready"
                        /\ env_files.archive = "absent"
    THEN DownloadOutcomes ELSE {"silent"}
ExtractInputs(mode) ==
    IF mode = "managed" /\ env_files.managed /= "ready"
    THEN ExtractOutcomes ELSE {"ok"}

SetupEnv ==
    /\ \E mode \in EnvModes :
          \E dl \in DownloadInputs(mode), ex \in ExtractInputs(mode) :
              setup_env(mode, dl, ex)
    /\ UNCHANGED serverVars
FilesChange ==
    /\ \E files \in EnvFiles : files_change(files)
    /\ UNCHANGED serverVars

EnvNext ==
    \/ SetupEnv
    \/ FilesChange

EnvSpec == InitEnv /\ [][EnvNext]_vars

\* ------------------------------------- a child that writes into pipes
\* how much an OS pipe buffers before a write blocks, and the most a child
\* writes, in the same unit
PipeCapacity == 2
MaxOutput == 4

\* a config without log_file_path makes stdout and stderr subprocess.PIPE;
\* one with log_file_path makes them the log file
PipeConfigs == {cfg \in Configs : cfg.job_folder = "folder"}

\* POST /inference/run of a child that will print n units and exit
pipe_run(cfg, n) ==
    /\ procs = <<>>
    /\ \E j \in JobIds : run_job("inference", j, cfg, "started")
    /\ child_output' = n
    /\ pipe' = 0

\* the child writes to its stdout or stderr; the write blocks while the
\* pipe is full, and nothing reads the pipe before communicate()
child_writes ==
    /\ procs /= <<>>
    /\ procs[1].alive
    /\ child_output > 0
    /\ IF procs[1].log_file = "absent"
       THEN /\ pipe < PipeCapacity
            /\ pipe' = pipe + 1
       ELSE UNCHANGED pipe
    /\ child_output' = child_output - 1
    /\ UNCHANGED jobVars

\* the child exits when it has written all it had to write
child_done(code) ==
    /\ child_output = 0
    /\ child_exit(1, code)
    /\ UNCHANGED osVars

\* a status poll; communicate() empties the pipes
pipe_status(j, sc, last_error) ==
    /\ get_status("inference", j, sc, last_error)
    /\ pipe' = IF \E i \in DOMAIN response'.ops : response'.ops[i] = "communicate"
               THEN 0 ELSE pipe
    /\ UNCHANGED child_output

PipeRun ==
    /\ \E cfg \in PipeConfigs, n \in 0..MaxOutput : pipe_run(cfg, n)
    /\ UNCHANGED <<serverVars, loop_time, env_files, guiVars>>
ChildWrites ==
    /\ child_writes
    /\ UNCHANGED <<serverVars, loop_time, env_files, guiVars>>
ChildDone ==
    /\ \E c \in ExitCodes : child_done(c)
    /\ UNCHANGED <<serverVars, loop_time, env_files, guiVars>>
PipeStatus ==
    /\ \E j \in DOMAIN running_jobs :
          \E sc \in SidecarInputs(j), e \in LogInputs(j) :
              pipe_status(j, sc, e)
    /\ UNCHANGED <<serverVars, loop_time, env_files, guiVars>>

PipeNext ==
    \/ PipeRun
    \/ ChildWrites
    \/ ChildDone
    \/ PipeStatus

\* the OS runs the child whenever it can run, and the client keeps polling
PipeFairness ==
    /\ WF_vars(ChildWrites)
    /\ WF_vars(ChildDone)
    /\ WF_vars(PipeStatus)

PipeSpec == Init /\ [][PipeNext]_vars /\ PipeFairness

\* --------------------------------------- the TaskManager of the GUI
\* how many tasks the user creates
MaxTasks == 2
\* max_attempts of monitor_task (3600 in the source); the loop only
\* compares attempt with it
max_attempts == 2

\* the ids uuid.uuid4() hands out, in order
Uuids == <<"uuid-1", "uuid-2", "uuid-3", "uuid-4">>
TaskIds == {Uuids[i] : i \in 1..MaxTasks}

\* the fields of a task dict that the manager reads
NewTask(task_type) ==
    [type |-> task_type, status |-> "unstarted", job_id |-> None]

update_task(m, task_id, updates) ==
    IF task_id \in DOMAIN m.tasks
    THEN [m EXCEPT !.tasks[task_id] = DictUpdate(@, updates)]
    ELSE m

RECURSIVE process_queue(_, _)
RECURSIVE execute_task(_, _, _)

\* process_queue up to the first suspension of the chain it starts
process_queue(m, notify_raises) ==
    IF m.current_task /= None \/ m.queue = <<>> THEN m
    ELSE LET task_id == Head(m.queue)
             m1 == [m EXCEPT !.queue = Tail(@)]
         IN  IF \/ task_id \notin DOMAIN m1.tasks
                \/ m1.tasks[task_id].status = "cancelled"
             THEN process_queue(m1, notify_raises)
             ELSE execute_task([m1 EXCEPT !.current_task = task_id],
                               task_id, notify_raises)

\* execute_task up to its first suspension: an inference task is left
\* awaiting the answer to POST /inference/run; run_training and
\* run_extraction only call ui.notify (which raises without a UI context)
\* and return, so the finally clause runs at once
execute_task(m, task_id, notify_raises) ==
    LET m1 == update_task(m, task_id, [status |-> "running"]) IN
    IF m1.tasks[task_id].type = "inference" THEN m1
    ELSE LET m2 == IF notify_raises
                   THEN update_task(m1, task_id, [status |-> "failed"])
                   ELSE m1
         IN  process_queue([m2 EXCEPT !.current_task = None], notify_raises)

\* the coroutine chain after process_queue returned
Started(m) ==
    [pc |-> IF m.current_task /= None THEN "starting" ELSE "idle",
     attempt |-> 0, orphan |-> None]

\* the finally clause of execute_task
finish(m, notify_raises) ==
    LET m1 == process_queue([m EXCEPT !.current_task = None], notify_raises)
    IN  /\ task_manager' = m1
        /\ execution' = Started(m1)

\* task['status'] as monitor_task reads it: its local `task` is the dict of
\* self.tasks, or the dict delete_task removed from it
MonitorStatus(m, ex) ==
    IF m.current_task \in DOMAIN m.tasks
    THEN m.tasks[m.current_task].status
    ELSE ex.orphan

\* the head of the loop of monitor_task
LoopExits(m, ex) ==
    \/ ex.attempt >= max_attempts
    \/ MonitorStatus(m, ex) \in {"cancelled", "completed", "failed"}

monitor_loop(m, ex, notify_raises) ==
    IF LoopExits(m, ex) THEN finish(m, notify_raises)
    ELSE /\ task_manager' = m
         /\ execution' = [ex EXCEPT !.pc = "polling"]

create_task(task_type) ==
    /\ uuids < MaxTasks
    /\ uuids' = uuids + 1
    /\ task_manager' =
          [task_manager EXCEPT
              !.tasks = (Uuids[uuids + 1] :> NewTask(task_type)) @@ @]
    /\ UNCHANGED execution

queue_task(task_id, notify_raises) ==
    /\ task_id \in DOMAIN task_manager.tasks
    /\ task_manager.tasks[task_id].status /= "running"
    /\ LET m1 == update_task(task_manager, task_id, [status |-> "queued"])
           m2 == IF \E i \in DOMAIN m1.queue : m1.queue[i] = task_id
                 THEN m1
                 ELSE [m1 EXCEPT !.queue = Append(@, task_id)]
       IN  IF m2.current_task = None
           THEN LET m3 == process_queue(m2, notify_raises) IN
                /\ task_manager' = m3
                /\ execution' = Started(m3)
           ELSE /\ task_manager' = m2
                /\ UNCHANGED execution
    /\ UNCHANGED uuids

\* what POST /inference/run can answer to run_inference
StartResults == {"started", "started without job_id", "error", "raises"}

\* run_inference resumes with the answer to POST /inference/run
start_response(result, notify_raises) ==
    /\ execution.pc = "starting"
    /\ LET task_id == task_manager.current_task IN
       CASE result = "started" ->
               LET m1 == update_task(task_manager, task_id, [job_id |-> "job"])
               IN  IF task_id \notin DOMAIN m1.tasks
                   THEN finish(m1, notify_raises)
                   ELSE monitor_loop(m1, execution, notify_raises)
         [] result = "started without job_id" ->
               finish(update_task(task_manager, task_id, [job_id |-> None]),
                      notify_raises)
         [] OTHER ->
               finish(update_task(task_manager, task_id, [status |-> "failed"]),
                      notify_raises)
    /\ UNCHANGED uuids

\* what GET /inference/status can answer to monitor_task
PollResults == {"running", "completed", "failed", "error", "cancelled",
                "raises"}
PolledStatus(result) ==
    CASE result = "completed" -> "completed"
      [] result \in {"failed", "error"} -> "failed"
      [] result = "cancelled" -> "cancelled"

\* monitor_task resumes with the answer to its GET
poll_response(result, notify_raises) ==
    /\ execution.pc = "polling"
    /\ IF result \in {"running", "raises"}
       THEN /\ execution' = [execution EXCEPT !.pc = "sleeping"]
            /\ UNCHANGED task_manager
       ELSE finish(update_task(task_manager, task_manager.current_task,
                               [status |-> PolledStatus(result)]),
                   notify_raises)
    /\ UNCHANGED uuids

\* asyncio.sleep(1) is over: attempt += 1 and the head of the loop
monitor_wakes(notify_raises) ==
    /\ execution.pc = "sleeping"
    /\ monitor_loop(task_manager,
                    [execution EXCEPT !.attempt = @ + 1], notify_raises)
    /\ UNCHANGED uuids

\* cancel_task with the answer `cancelled` of POST /{type}/cancel
cancel_task(task_id) ==
    /\ task_id \in DOMAIN task_manager.tasks
    /\ task_manager.tasks[task_id].job_id /= None
    /\ task_manager' =
          update_task(task_manager, task_id, [status |-> "cancelled"])
    /\ UNCHANGED <<execution, uuids>>

delete_task(task_id) ==
    /\ task_id \in DOMAIN task_manager.tasks
    /\ task_manager.tasks[task_id].status /= "running"
    /\ task_manager' =
          [task_manager EXCEPT
              !.tasks = [t \in DOMAIN @ \ {task_id} |-> @[t]],
              !.queue = SelectSeq(@, LAMBDA t : t /= task_id)]
    /\ execution' =
          IF task_id = task_manager.current_task
          THEN [execution EXCEPT
                   !.orphan = task_manager.tasks[task_id].status]
          ELSE execution
    /\ UNCHANGED uuids

CreateTask ==
    /\ \E T \in JobTypes : create_task(T)
    /\ UNCHANGED <<jobVars, serverVars, loop_time, env_files, osVars>>
QueueTask ==
    /\ \E t \in TaskIds, nr \in BOOLEAN : queue_task(t, nr)
    /\ UNCHANGED <<jobVars, serverVars, loop_time, env_files, osVars>>
StartResponse ==
    /\ \E r \in StartResults, nr \in BOOLEAN : start_response(r, nr)
    /\ UNCHANGED <<jobVars, serverVars, loop_time, env_files, osVars>>
PollResponse ==
    /\ \E r \in PollResults, nr \in BOOLEAN : poll_response(r, nr)
    /\ UNCHANGED <<jobVars, serverVars, loop_time, env_files, osVars>>
MonitorWakes ==
    /\ \E nr \in BOOLEAN : monitor_wakes(nr)
    /\ UNCHANGED <<jobVars, serverVars, loop_time, env_files, osVars>>
CancelTask ==
    /\ \E t \in TaskIds : cancel_task(t)
    /\ UNCHANGED <<jobVars, serverVars, loop_time, env_files, osVars>>
DeleteTask ==
    /\ \E t \in TaskIds : delete_task(t)
    /\ UNCHANGED <<jobVars, serverVars, loop_time, env_files, osVars>>

TaskNext ==
    \/ CreateTask
    \/ QueueTask
    \/ StartResponse
    \/ PollResponse
    \/ MonitorWakes
    \/ CancelTask
    \/ DeleteTask

TaskSpec == Init /\ [][TaskNext]_vars

\* ================================================================ claims
Polled(j) ==
    /\ response.handler = "status"
    /\ response.job_id = j
    /\ response.http = 200

Signals(ops) == {i \in DOMAIN ops : ops[i] \in {"SIGTERM", "SIGKILL"}}

\* C1: a run request whose job_id is that of a record with stored status
\* running is answered with an error, spawns no process and leaves the
\* record unchanged.
C1_RunRejectsRunningId ==
    [][\A j \in JobIds, o \in RunOutcomes, T \in JobTypes, cfg \in Configs :
          ( /\ j \in DOMAIN running_jobs
            /\ running_jobs[j].status = "running"
            /\ run_job(T, j, cfg, o) )
          => ( /\ response'.http >= 400
               /\ procs' = procs
               /\ running_jobs' = running_jobs )]_vars

\* C2: a cancel request for a job whose stored status is terminal leaves the
\* status, exit_code and result fields of the record as they were.
C2_CancelKeepsTerminalRecord ==
    [][\A j \in JobIds, T \in JobTypes, g \in GraceOutcomes :
          ( /\ j \in DOMAIN running_jobs
            /\ IsFinal(running_jobs[j])
            /\ cancel_job(T, j, g) )
          => Payload(running_jobs'[j]) = Payload(running_jobs[j])]_vars

\* C3: once a cancel was accepted for a record with stored status running,
\* the record is cancelled and every later poll of it reports cancelled,
\* whatever the exit code of the child and whether or not the child had
\* ended before the cancel.
C3_CancelWinsRace ==
    \A j \in DOMAIN running_jobs :
        hist[j].cancel_accepted =>
            /\ running_jobs[j].status = "cancelled"
            /\ Polled(j) => response.body.status = "cancelled"

\* a poll reported cancelled for a job whose child had ended with code 0
\* before the cancel
C3_Witness ==
    \E j \in DOMAIN running_jobs :
        /\ hist[j].cancel_accepted
        /\ hist[j].exited_before_cancel
        /\ procs[running_jobs[j].process].code = 0
        /\ Polled(j)
        /\ response.body.status = "cancelled"

\* C4: a poll of a registered job whose child has not exited responds
\* running and leaves the stored status running, whatever the sidecar and
\* whether or not the config names a job_folder.
C4_LivePollsReportRunning ==
    [][\A j \in JobIds, T \in JobTypes, sc \in SidecarStates, e \in LastErrors :
          ( /\ j \in DOMAIN running_jobs
            /\ running_jobs[j].status = "running"
            /\ procs[running_jobs[j].process].alive
            /\ get_status(T, j, sc, e) )
          => ( /\ response'.body.status = "running"
               /\ running_jobs'[j].status = "running" )]_vars

\* C5: once a poll of a job returned a terminal status, every later poll of
\* it returns the same status, message, exit_code, output and error.
C5_TerminalPayloadRepeats ==
    \A j \in DOMAIN running_jobs :
        (hist[j].first_terminal /= NoPayload /\ Polled(j))
            => Payload(response.body) = hist[j].first_terminal

\* C6: for each job id at most one child spawned under that id is alive.
C6_OneLiveChildPerId ==
    \A j \in JobIds :
        Cardinality({pid \in DOMAIN procs :
                        procs[pid].job_id = j /\ procs[pid].alive}) <= 1

\* C7: a cancel request for a job whose stored status is terminal is
\* answered 404, never with the cancelled success response, and signals
\* no process.
C7_CancelTerminalNotFound ==
    [][\A j \in JobIds, T \in JobTypes, g \in GraceOutcomes :
          ( /\ j \in DOMAIN running_jobs
            /\ IsFinal(running_jobs[j])
            /\ cancel_job(T, j, g) )
          => ( /\ response'.http = 404
               /\ response'.body.status /= "cancelled"
               /\ Signals(response'.ops) = {} )]_vars

\* C8: every status response with a terminal status carries the exit_code,
\* and the error summary when the status is failed.
C8_TerminalResponseHasExitCode ==
    \A j \in JobIds :
        (Polled(j) /\ response.body.status \in TerminalStatuses)
            => /\ "exit_code" \in DOMAIN response.body
               /\ response.body.status = "failed"
                    => "error" \in DOMAIN response.body

\* C9: the monitor invokes the shutdown callback at most once, at the check
\* that finds the ancestor dead, makes no liveness check after that and
\* terminates when the callback is over.
C9_CallbackOnce ==
    /\ callback_calls <= 1
    /\ late_checks = 0
    /\ callback_calls = 1 => monitor_pc /= "sleeping"
    /\ monitor_pc \in {"in_callback", "done"} => callback_calls = 1

\* the monitor has ended after a callback whose runner cleanup raised
C9_Witness ==
    /\ callback_calls = 1
    /\ monitor_pc = "done"
    /\ runner = "failed"
    /\ ~parent_alive

\* C10: when the ancestor has died the server process eventually exits,
\* whatever its jobs are doing and whether or not the runner cleanup raises.
C10_ServerExitsAfterParent ==
    (~parent_alive) ~> (main_pc = "exited")

\* the server has exited after the death of the ancestor, with a job
\* registered and a runner cleanup that raised
C10_Witness ==
    /\ ~parent_alive
    /\ main_pc = "exited"
    /\ runner = "failed"
    /\ DOMAIN running_jobs /= {}

\* C11: when the ancestor has died while the monitor is running, the first
\* liveness check after the death invokes the shutdown callback: no check
\* made after the death leaves the callback uncalled.
C11_FirstCheckAfterDeathShutsDown ==
    [][(~parent_alive /\ MonitorCheck)
          => ( /\ callback_calls' = callback_calls + 1
               /\ shutdown_event'
               /\ monitor_pc' = "in_callback" )]_vars

\* the callback is running after the death of an ancestor that several
\* checks had found alive
C11_Witness ==
    /\ ~parent_alive
    /\ ~probe_denied
    /\ check_count > LogChecks
    /\ callback_calls = 1
    /\ monitor_pc = "in_callback"

\* C12: no liveness check made while the ancestor is alive invokes the
\* shutdown callback, whatever the platform probe does (success, permission
\* error).
C12_NoShutdownWhileParentAlive ==
    [][(parent_alive /\ MonitorCheck)
          => ( /\ callback_calls' = callback_calls
               /\ monitor_pc' = "sleeping" )]_vars

\* the environment of a mode, as the files hold it
EnvOf(files, mode) == IF mode = "managed" THEN files.managed ELSE files.custom

SetupResponse(r) == r.handler = "setup_env"

\* C13: a call of setup_environment for an environment that is already
\* valid makes exactly one validation probe, neither downloads nor
\* extracts, returns ready with the interpreter path the previous ready
\* call for the same environment returned, and leaves the files as they
\* were.
C13_SetupIdempotent ==
    [][\A mode \in EnvModes, dl \in DownloadOutcomes, ex \in ExtractOutcomes :
          ( /\ EnvOf(env_files, mode) = "ready"
            /\ setup_env(mode, dl, ex) )
          => ( /\ response'.ops = <<"check">>
               /\ response'.body.status = "ready"
               /\ response'.body.python_path = PythonPath(EnvDir(mode))
               /\ ( SetupResponse(response) /\ response.mode = mode
                      /\ response.body.status = "ready" )
                    => response'.body.python_path = response.body.python_path
               /\ env_files' = env_files )]_vars

\* a call for the managed environment found it ready and left it alone
C13_Witness ==
    /\ SetupResponse(response)
    /\ response.mode = "managed"
    /\ response.body.status = "ready"
    /\ response.body.message = "Environment already ready"
    /\ response.ops = <<"check">>
    /\ env_files.managed = "ready"
    /\ env_files.archive = "good"

\* C14: in custom mode a path whose validation is not ready gives an error
\* after the one check: no interpreter path is returned, nothing is
\* downloaded or extracted and no file is changed, whatever the state of the
\* managed environment and of the archive.
C14_CustomFailureIsFinal ==
    [][\A dl \in DownloadOutcomes, ex \in ExtractOutcomes :
          ( /\ env_files.custom /= "ready"
            /\ setup_env("custom", dl, ex) )
          => ( /\ response'.body.status = "error"
               /\ "python_path" \notin DOMAIN response'.body
               /\ response'.ops = <<"check">>
               /\ env_files' = env_files )]_vars

\* a custom path without a working interpreter was refused although the
\* managed environment could have been extracted from the archive
C14_Witness ==
    /\ SetupResponse(response)
    /\ response.mode = "custom"
    /\ response.body.status = "error"
    /\ env_files.custom \in {"missing", "broken", "raises"}
    /\ env_files.managed = "missing"
    /\ env_files.archive = "good"

\* the part of an error text that names what failed: the text before the
\* first ": ", nothing for a bare exception text
RECURSIVE ColonAt(_, _)
ColonAt(e, i) ==
    IF i + 1 > Len(e) THEN 0
    ELSE IF SubSeq(e, i, i + 1) = ": " THEN i
    ELSE ColonAt(e, i + 1)
ErrorLabel(e) ==
    LET c == ColonAt(e, 1) IN IF c = 0 THEN "" ELSE SubSeq(e, 1, c - 1)

ManagedError(r) ==
    /\ SetupResponse(r)
    /\ r.mode = "managed"
    /\ r.body.status = "error"

\* C15: the errors of two calls of setup_environment in managed mode name
\* the same failure exactly when the same step failed: download,
\* extraction, or the validation after a successful extraction.
C15_ErrorNamesFailedStep ==
    [][(ManagedError(response) /\ ManagedError(response'))
          => ( (response.failed_step = response'.failed_step)
                 <=> (ErrorLabel(response.body.error)
                        = ErrorLabel(response'.body.error)) )]_vars

\* the run requests with a config_path that miss a precondition
FailedPreconditions ==
    {f \in LaunchFacts :
        /\ f.config_path
        /\ ~f.env_ready \/ ~f.python_exists \/ ~f.config_exists}

\* C16: a run request with a config_path whose environment is not ready, or
\* whose interpreter or config file does not exist, is answered with a
\* non-2xx error; no log file is opened, no process is spawned and the
\* registry stays as it was.
C16_FailedPreconditionSpawnsNothing ==
    [][\A f \in FailedPreconditions, j \in JobIds :
       \A T \in RunTypes(LaunchOutcome(f)), cfg \in RunConfigs(LaunchOutcome(f)) :
          ( /\ response'.handler = "run"
            /\ run_job(T, j, cfg, LaunchOutcome(f)) )
          => ( /\ response'.http >= 300
               /\ response'.body.status = "error"
               /\ ~response'.opened_log
               /\ response'.ops = <<>>
               /\ procs' = procs
               /\ running_jobs' = running_jobs )]_vars

\* a run request for a missing config file was refused while a job was
\* registered as running
C16_Witness ==
    /\ response.handler = "run"
    /\ response.http = 500
    /\ response.body.error = "config_missing"
    /\ \E j \in DOMAIN running_jobs :
          /\ running_jobs[j].status = "running"
          /\ procs[running_jobs[j].process].log_file = "open"

\* a registered job with a job_folder whose stored status is running
RunningInFolder(j) ==
    /\ j \in DOMAIN running_jobs
    /\ running_jobs[j].status = "running"
    /\ running_jobs[j].job_folder /= None

\* C17: a poll of a running job with a job_folder that finds valid JSON in
\* the sidecar responds running with the sidecar's value for each of stage,
\* progress, message and metadata that the sidecar holds, the default
\* message when it holds none, and none of the other keys; a poll after the
\* child has exited with code 0 without a cancel reports completed.
C17_SidecarMergedThenCompleted ==
    [][\A j \in JobIds :
       \A T \in Endpoints(j), sc \in SidecarStates :
          ( /\ response'.handler = "status"
            /\ RunningInFolder(j)
            /\ get_status(T, j, sc, None) )
          => LET p == procs[running_jobs[j].process]
                 body == response'.body
             IN  /\ (p.alive /\ sc \in SidecarDocs) =>
                       /\ body.status = "running"
                       /\ running_jobs'[j].status = "running"
                       /\ \A k \in SidecarKeys :
                             IF k \in DOMAIN SidecarDoc(sc)
                             THEN k \in DOMAIN body /\ body[k] = SidecarDoc(sc)[k]
                             ELSE IF k = "message"
                             THEN body.message = RunningMessage(T)
                             ELSE k \notin DOMAIN body
                 /\ (~p.alive /\ p.code = 0) =>
                       /\ body.status = "completed"
                       /\ running_jobs'[j].status = "completed"]_vars

\* a poll of a running job returned the message, progress and metadata of
\* the sidecar and no stage
C17_Witness ==
    \E j \in DOMAIN running_jobs :
        /\ Polled(j)
        /\ running_jobs[j].job_folder = "folder"
        /\ response.body.status = "running"
        /\ response.body.message = "Processing files"
        /\ response.body.metadata = "meta"
        /\ "stage" \notin DOMAIN response.body

\* the children whose record was replaced by a later run under the same id
Replaced(pid) ==
    \A j \in DOMAIN running_jobs : running_jobs[j].process /= pid

\* C18: no handler closes a log file handle that is already closed; the
\* handle of an exited child is not open once a poll or a cancel has put a
\* terminal status into its record, nor once its record was replaced.
C18_LogClosedOnce ==
    /\ \A i \in DOMAIN response.ops : response.ops[i] /= "close again"
    /\ \A j \in DOMAIN running_jobs :
          IsFinal(running_jobs[j])
              => procs[running_jobs[j].process].log_file /= "open"
    /\ \A pid \in DOMAIN procs :
          (Replaced(pid) /\ ~procs[pid].alive) => procs[pid].log_file /= "open"

\* C19: the id that a run request without job_id is given is not the id of
\* a job registered with stored status running, also when no millisecond
\* has passed since the run request that registered that job.
C19_GeneratedIdIsFresh ==
    [][\A T \in JobTypes, cfg \in Configs :
          ( /\ response'.handler = "run"
            /\ run_generated(T, cfg, "started") )
          => ~( /\ GeneratedId(T, loop_time) \in DOMAIN running_jobs
                /\ running_jobs[GeneratedId(T, loop_time)].status = "running" )]_vars

\* str.lower() for the letters of the keywords
UpperCase == "ABCDEFGHIJKLMNOPQRSTUVWXYZ"
LowerCase == "abcdefghijklmnopqrstuvwxyz"
LowerChar(c) ==
    IF \E i \in 1..Len(UpperCase) : SubSeq(UpperCase, i, i) = c
    THEN LET i == CHOOSE i \in 1..Len(UpperCase) : SubSeq(UpperCase, i, i) = c
         IN  SubSeq(LowerCase, i, i)
    ELSE c
RECURSIVE Lower(_)
Lower(line) ==
    IF Len(line) = 0 THEN ""
    ELSE IF Len(line) = 1 THEN LowerChar(line)
    ELSE LET half == Len(line) \div 2
         IN  Lower(SubSeq(line, 1, half))
                 \o Lower(SubSeq(line, half + 1, Len(line)))

Markers == {"error", "failed", "exception", "traceback", "runtimeerror",
            "valueerror", "importerror"}
\* the lines with a marker, whatever its case
MarkedLines == {l \in LogLines \cup {Filler} :
                   \E m \in Markers : Contains(Lower(l), m)}

\* the line the error summary is derived from: the last marked line of the
\* last max_lines lines, or else the last non-trivial one; None if there is
\* neither
RECURSIVE LastMarked(_, _)
LastMarked(lines, i) ==
    IF i = 0 THEN None
    ELSE IF lines[i] \in MarkedLines THEN Strip(lines[i])
    ELSE LastMarked(lines, i - 1)
SummaryLine(log) ==
    LET last_lines == LastLines(log.lines)
        marked == LastMarked(last_lines, Len(last_lines))
    IN  IF marked /= None THEN marked
        ELSE LastNonTrivial(last_lines, Len(last_lines))

\* at most MaxErrorLen characters, the cut marked by an ellipsis
Summary(line) ==
    IF Len(line) <= MaxErrorLen THEN line
    ELSE SubSeq(line, 1, MaxErrorLen - 3) \o "..."

\* C20: the error of the failed status of a job with a log file is the
\* summary of the last of the final 10 log lines that holds a marker in any
\* case, or of the last non-trivial line when none holds one, followed by
\* the pointer to the log file.
C20_ErrorIsLastMarkedLine ==
    ( /\ response.handler = "failed_status"
      /\ response.log.readable
      /\ SummaryLine(response.log) /= None )
    => /\ response.body.status = "failed"
       /\ response.body.error =
              Summary(SummaryLine(response.log))
                  \o " (see log file for full error message)"

\* C21: a status or cancel request for an id that is not in the registry
\* is answered 404, signals no process and leaves the registry and the
\* processes as they were.
C21_UnknownIdNotFound ==
    [][\A j \in RouteIds, T \in JobTypes :
          ( /\ j \notin DOMAIN running_jobs
            /\ response'.handler \in {"status", "cancel"}
            /\ get_status(T, j, "absent", None) \/ cancel_job(T, j, None) )
          => ( /\ response'.http = 404
               /\ response'.body.status = "error"
               /\ response'.ops = <<>>
               /\ running_jobs' = running_jobs
               /\ procs' = procs )]_vars

\* a cancel for an unknown id was answered 404 while the child of another
\* job was running
C21_Witness ==
    /\ response.handler = "cancel"
    /\ response.http = 404
    /\ response.job_id \notin DOMAIN running_jobs
    /\ \E j \in DOMAIN running_jobs :
          /\ running_jobs[j].status = "running"
          /\ procs[running_jobs[j].process].alive

\* C22: the stored status of every record is running, completed, failed or
\* cancelled, and the status a poll returns is the status the registry
\* holds when the poll responds.
C22_StoredStatusInDomain ==
    \A j \in DOMAIN running_jobs :
        /\ running_jobs[j].status \in {"running"} \cup TerminalStatuses
        /\ Polled(j) => response.body.status = running_jobs[j].status

\* C23: a poll of a job whose stored status is terminal performs no
\* operation on the process and leaves it as it was; no poll drains the
\* output of a process that was drained before.
C23_TerminalPollLeavesProcess ==
    [][\A j \in JobIds :
       \A T \in Endpoints(j), e \in LogInputs(j) :
          ( /\ response'.handler = "status"
            /\ j \in DOMAIN running_jobs
            /\ get_status(T, j, "absent", e) )
          => LET p == procs[running_jobs[j].process] IN
             /\ IsFinal(running_jobs[j]) =>
                   (response'.ops = <<>> /\ procs' = procs)
             /\ (\E i \in DOMAIN response'.ops :
                     response'.ops[i] = "communicate") => ~p.drained]_vars

\* a poll of a job whose exit an earlier poll had observed returned the
\* memoized result
C23_Witness ==
    \E j \in DOMAIN running_jobs :
        /\ Polled(j)
        /\ response.ops = <<>>
        /\ response.body.status = "completed"
        /\ procs[running_jobs[j].process].drained
        /\ procs[running_jobs[j].process].log_file = "closed"

\* C24: a poll that finds the process exited for a record whose stored
\* status is not terminal reports and stores completed when the exit code
\* is zero and failed when it is not; a poll of a record with stored status
\* cancelled reports cancelled whatever the exit code.
C24_ExitCodeDecidesStatus ==
    [][\A j \in JobIds :
       \A T \in Endpoints(j), e \in LogInputs(j) :
          ( /\ response'.handler = "status"
            /\ j \in DOMAIN running_jobs
            /\ ~procs[running_jobs[j].process].alive
            /\ get_status(T, j, "absent", e) )
          => LET p == procs[running_jobs[j].process]
                 stored == running_jobs[j].status
                 expected ==
                     CASE stored = "cancelled" -> "cancelled"
                       [] stored /= "cancelled" /\ p.code = 0 -> "completed"
                       [] OTHER -> "failed"
             IN  (stored = "cancelled" \/ ~IsFinal(running_jobs[j])) =>
                    /\ response'.body.status = expected
                    /\ running_jobs'[j].status = expected]_vars

\* the first poll after an exit with a non-zero code reported failed
C24_Witness ==
    \E j \in DOMAIN running_jobs :
        /\ Polled(j)
        /\ response.body.status = "failed"
        /\ "exit_code" \in DOMAIN response.body
        /\ response.body.exit_code = 1
        /\ running_jobs[j].status = "failed"

\* C25: a cancel of a job with stored status running whose process is alive
\* sends the terminate signal first and polls after the grace period; it
\* sends the kill signal exactly when the process has not exited by then,
\* and after the terminate signal; the success response leaves the record
\* with status cancelled and a cancelled_at entry.
C25_TerminateThenKill ==
    [][\A j \in JobIds :
       \A T \in Endpoints(j), g \in GraceInputs(j) :
          ( /\ response'.handler = "cancel"
            /\ j \in DOMAIN running_jobs
            /\ running_jobs[j].status = "running"
            /\ procs[running_jobs[j].process].alive
            /\ cancel_job(T, j, g) )
          => LET ops == response'.ops
                 kills == {i \in DOMAIN ops : ops[i] = "SIGKILL"}
                 p2 == procs'[running_jobs[j].process]
             IN  /\ ops[1] = "SIGTERM"
                 /\ ops[2] = "poll"
                 /\ (kills /= {}) <=> (g = None)
                 /\ kills \subseteq {3}
                 /\ (g = None) <=> (p2.code = SIGKILL_code)
                 /\ ~p2.alive
                 /\ response'.http = 200 =>
                       /\ running_jobs'[j].status = "cancelled"
                       /\ "cancelled_at" \in DOMAIN running_jobs'[j]]_vars

\* a cancel whose process outlived the grace period and was killed
C25_Witness ==
    /\ response.handler = "cancel"
    /\ response.http = 200
    /\ Len(response.ops) >= 3
    /\ response.ops[1] = "SIGTERM"
    /\ response.ops[3] = "SIGKILL"
    /\ running_jobs[response.job_id].status = "cancelled"
    /\ procs[running_jobs[response.job_id].process].code = SIGKILL_code

\* C26: the main coroutine never cancels the monitor task while the runner
\* cleanup awaited inside the shutdown callback is in progress, and the
\* server has not exited with that cleanup unfinished.
C26_CleanupCompletesBeforeExit ==
    /\ [][(cancel_sent' /\ ~cancel_sent) => monitor_pc /= "in_callback"]_vars
    /\ [](main_pc = "exited" => runner /= "cleaning")

C28_EndpointsActOnOwnType ==
    [][\A j \in RouteIds, T \in JobTypes :
          ( /\ response'.handler \in {"status", "cancel"}
            /\ j \in DOMAIN running_jobs
            /\ T /= JobType(running_jobs[j])
            /\ \/ \E e \in LogInputs(j) : get_status(T, j, "absent", e)
               \/ \E g \in GraceInputs(j) : cancel_job(T, j, g) )
          => ( /\ response'.http = 404
               /\ Signals(response'.ops) = {}
               /\ running_jobs' = running_jobs
               /\ procs' = procs )]_vars

\* C27: once a job without log path is registered, status polling
\* eventually finds a terminal status stored for it, whatever the child
\* writes before it exits.
C27_PipeJobReachesTerminal ==
    (\E j \in DOMAIN running_jobs : running_jobs[j].log_file_path = None)
        ~> (\E j \in DOMAIN running_jobs : IsFinal(running_jobs[j]))

\* the tasks of the manager with status running
RunningTasks ==
    {t \in DOMAIN task_manager.tasks :
        task_manager.tasks[t].status = "running"}

\* C30: at most one task of the TaskManager has status running, and a task
\* with status running is the current task.
C30_OneRunningTask ==
    /\ Cardinality(RunningTasks) <= 1
    /\ \A t \in RunningTasks : task_manager.current_task = t

====
